---- MODULE Spec2Model ----
(***************************************************************************)
(* Voice Conversation Orchestrator of ProfIngles (frontend).               *)
(*                                                                         *)
(*   RealTimeChat       Projeto/frontend/src/components/RealTimeChat.tsx   *)
(*   AdvancedVoiceChat  src/unnamed/part_001                               *)
(*   useAudioPlayer     Projeto/frontend/src/hooks/useAudioPlayer.ts       *)
(*                                                                         *)
(* Every handler (event callback, timer callback, continuation after an    *)
(* await) is one action.  React state written by a handler is visible to   *)
(* the next handler; a state setter called after the component has been    *)
(* unmounted changes nothing, while refs, sockets, timers and media        *)
(* streams live on.                                                        *)
(***************************************************************************)
EXTENDS Integers, Sequences, FiniteSets, Bags, TLC

(***************************************************************************)
(* Bounds of the model.                                                    *)
(***************************************************************************)
\* the user's actions and the connection losses of one run
MaxActs == 3

\* the milliseconds the clock advances by at most
MaxClock == 3

(***************************************************************************)
(* Strings: sequences of characters; SP is a white-space character.        *)
(***************************************************************************)
SP == " "
Blank == <<>>
Utterances == { <<>>, <<SP>>, <<"h">>, <<SP, "h">> }

RECURSIVE TrimStart(_)
TrimStart(s) ==
    IF s # <<>> /\ Head(s) = SP THEN TrimStart(Tail(s)) ELSE s

RECURSIVE TrimEnd(_)
TrimEnd(s) ==
    IF s # <<>> /\ s[Len(s)] = SP THEN TrimEnd(SubSeq(s, 1, Len(s) - 1)) ELSE s

Trim(s) == TrimEnd(TrimStart(s))

(***************************************************************************)
(* processing_time values of a chat_response; 0 stands for the falsy ones  *)
(* (0 or absent).                                                          *)
(***************************************************************************)
Latencies == {0, 1, 2}

(***************************************************************************)
(* Exact rationals for avgResponseTime: [num, den], den > 0, reduced.      *)
(***************************************************************************)
RECURSIVE GCD(_, _)
GCD(a, b) == IF b = 0 THEN a ELSE GCD(b, a % b)

Frac(n, d) == LET g == GCD(n, d) IN
    IF g = 0 THEN [num |-> 0, den |-> 1] ELSE [num |-> n \div g, den |-> d \div g]

(***************************************************************************)
(* React: a state setter is ignored once the component is unmounted.       *)
(***************************************************************************)
SetState(mounted, old, new) == IF mounted THEN new ELSE old

VARIABLES
    \* ---- RealTimeChat ----
    rtcMounted,        \* the component is mounted
    rtcMessages,       \* useState messages
    rtcIsRecording,    \* useState isRecording
    rtcIsProcessing,   \* useState isProcessing
    rtcAvg,            \* useState avgResponseTime, an exact rational
    rtcTotalMessages,  \* useState totalMessages
    rtcEffectDep,      \* the totalMessages the effect last ran with
    rtcWsRef,          \* wsRef.current: 0 (null) or an index of rtcSockets
    rtcSockets,        \* every WebSocket the component created
    rtcTimers,         \* pending setTimeout(connectWebSocket): closure -> count
    rtcRecorderRef,    \* mediaRecorderRef.current: 0 or an index of rtcRecs
    rtcRecs,           \* every MediaRecorder created, with its stream
    rtcAudioChunks,    \* audioChunksRef.current
    rtcAcquiring,      \* startRecording calls awaiting getUserMedia
    rtcStrayStreams,   \* streams acquired by a startRecording that threw
    rtcActs,           \* actions of the user and connection losses so far
    \* ---- AdvancedVoiceChat ----
    avcMounted,          \* the component is mounted
    avcConnectionStatus, \* useState connectionStatus
    avcWsConnection,     \* useState wsConnection: 0 (null) or an index of avcSockets
    avcSockets,          \* every WebSocket connectWebSocket created
    avcTimers,           \* pending setTimeout(connectWebSocket, 3000)
    avcActs,             \* actions of the user and network failures so far
    avcMessages,         \* useState messages
    avcIsRecording,      \* useState isRecording
    avcIsProcessing,     \* useState isProcessing
    avcCurrentModel,     \* useState currentModel
    avcAvailableModels,  \* useState availableModels: the models with available = true
    avcConversationMode, \* useState conversationMode
    avcAutoModelSwitch,  \* useState autoModelSwitch
    avcMediaRecorder,    \* useState mediaRecorder: 0 (null) or an index of avcRecs
    avcAudioChunks,      \* useState audioChunks: the recorders whose data it holds
    avcAcquiring,        \* startRecording calls awaiting getUserMedia, with their closures
    avcStrayStreams,     \* streams acquired by a startRecording that threw
    avcRecs,             \* every MediaRecorder created, with its stream and closure
    avcSent,             \* sendMessage invocations that passed the blank check
    avcChats,            \* POST /chat requests in flight
    avcFetches,          \* other requests in flight: /models, /switch-model, /config, DELETE
    \* ---- useAudioPlayer, and handlePlayAudio of AdvancedVoiceChat ----
    plIsPlaying,         \* useState isPlaying
    plCurrentTime,       \* useState currentTime: 0, or 1 for any later time
    plAudioRef,          \* audioRef.current: 0 (null) or an index of plAudios
    plAudios,            \* every Audio element playAudio created, with its URL
    plSynthesizing,      \* handlePlayAudio calls awaiting textToSpeech
    plActs,              \* actions of the user so far
    \* ---- the model selection policy of the backend ----
    polModels,           \* listModels(): model -> ModelInfo, or NotListed
    polMode,             \* the conversation mode of the next turn
    polSelected,         \* the model selected for the next turn, or NotSelected
    \* ---- the environment of the components ----
    clock,               \* Date.now(), in milliseconds since the page was loaded
    idleStops            \* stopRecording() calls made while nothing was recorded,
                         \* per component

rtcVars == << rtcMounted, rtcMessages, rtcIsRecording, rtcIsProcessing, rtcAvg,
              rtcTotalMessages, rtcEffectDep, rtcWsRef, rtcSockets, rtcTimers,
              rtcRecorderRef, rtcRecs, rtcAudioChunks, rtcAcquiring,
              rtcStrayStreams, rtcActs >>

avcConnVars == << avcMounted, avcConnectionStatus, avcWsConnection, avcSockets,
                  avcTimers >>

avcRecVars == << avcIsRecording, avcMediaRecorder, avcAudioChunks, avcAcquiring,
                 avcStrayStreams, avcRecs >>

avcModelVars == << avcCurrentModel, avcAvailableModels, avcConversationMode,
                   avcAutoModelSwitch >>

avcTurnVars == << avcMessages, avcIsProcessing, avcSent, avcChats, avcFetches,
                  avcRecVars, avcModelVars >>

avcVars == << avcConnVars, avcActs, avcTurnVars >>

plVars == << plIsPlaying, plCurrentTime, plAudioRef, plAudios, plSynthesizing,
             plActs >>

polVars == << polModels, polMode, polSelected >>

envVars == << clock, idleStops >>

vars == << rtcVars, avcVars, plVars, polVars, envVars >>

(***************************************************************************)
(* RealTimeChat: the WebSocket effect.                                     *)
(***************************************************************************)
\* readyState of a socket
WsLive == {"connecting", "open"}

\* new WebSocket(...) inside connectWebSocket of the effect closure that saw
\* totalMessages = cap; the new socket becomes wsRef.current
RtcConnectWebSocket(socks, cap) ==
    /\ rtcSockets' = Append(socks, [st |-> "connecting", cap |-> cap, req |-> 0])
    /\ rtcWsRef' = Len(socks) + 1

\* WebSocket.close(): a socket not yet closed starts closing
WsClose(socks, s) ==
    IF s # 0 /\ socks[s].st \in WsLive
    THEN [socks EXCEPT ![s].st = "closing"]
    ELSE socks

RtcInit ==
    /\ rtcMounted = TRUE
    /\ rtcMessages = <<>>
    /\ rtcIsRecording = FALSE
    /\ rtcIsProcessing = FALSE
    /\ rtcAvg = Frac(0, 1)
    /\ rtcTotalMessages = 0
    /\ rtcEffectDep = 0
    /\ rtcWsRef = 1
    /\ rtcSockets = << [st |-> "connecting", cap |-> 0, req |-> 0] >>
    /\ rtcTimers = [c \in 0..MaxActs |-> 0]
    /\ rtcRecorderRef = 0
    /\ rtcRecs = <<>>
    /\ rtcAudioChunks = <<>>
    /\ rtcAcquiring = 0
    /\ rtcStrayStreams = 0
    /\ rtcActs = 0

\* an action the user or the network takes on its own; every other action
\* is a reaction of the program to an earlier one
RtcAct == rtcActs < MaxActs /\ rtcActs' = rtcActs + 1 /\ UNCHANGED << avcVars, plVars, polVars, envVars >>
\* an event handler of the mounted component: React runs the effects that
\* are due before it dispatches the event
RtcUserEvent == RtcAct /\ rtcMounted /\ rtcTotalMessages = rtcEffectDep
RtcReact == rtcActs' = rtcActs /\ UNCHANGED << avcVars, plVars, polVars, envVars >>

rtcConnVars == << rtcWsRef, rtcSockets, rtcTimers, rtcEffectDep >>
rtcRecVars == << rtcRecorderRef, rtcRecs, rtcAudioChunks, rtcAcquiring,
                 rtcStrayStreams, rtcIsRecording >>
rtcStatVars == << rtcAvg, rtcTotalMessages >>

\* useEffect(..., [totalMessages]) re-running after totalMessages changed:
\* the previous cleanup, then connectWebSocket of the new closure
RtcRunEffect ==
    /\ RtcReact
    /\ rtcMounted
    /\ rtcTotalMessages # rtcEffectDep
    /\ RtcConnectWebSocket(WsClose(rtcSockets, rtcWsRef), rtcTotalMessages)
    /\ rtcEffectDep' = rtcTotalMessages
    /\ UNCHANGED << rtcMounted, rtcMessages, rtcIsProcessing, rtcTimers,
                    rtcRecVars, rtcStatVars >>

\* unmount: the effect cleanup
RtcUnmount ==
    /\ RtcAct
    /\ rtcMounted
    /\ rtcMounted' = FALSE
    /\ rtcSockets' = WsClose(rtcSockets, rtcWsRef)
    /\ UNCHANGED << rtcMessages, rtcIsProcessing, rtcWsRef, rtcTimers,
                    rtcEffectDep, rtcRecVars, rtcStatVars >>

\* wsRef.current.onopen
RtcOnOpen(s) ==
    /\ RtcReact
    /\ rtcSockets[s].st = "connecting"
    /\ rtcSockets' = [rtcSockets EXCEPT ![s].st = "open"]
    /\ UNCHANGED << rtcMounted, rtcMessages, rtcIsProcessing, rtcWsRef,
                    rtcTimers, rtcEffectDep, rtcRecVars, rtcStatVars >>

\* wsRef.current.onclose
RtcOnCloseHandler(s) ==
    /\ rtcSockets' = [rtcSockets EXCEPT ![s].st = "closed", ![s].req = 0]
    /\ rtcTimers' = [rtcTimers EXCEPT ![rtcSockets[s].cap] = @ + 1]
    /\ UNCHANGED << rtcMounted, rtcMessages, rtcIsProcessing, rtcWsRef,
                    rtcEffectDep, rtcRecVars, rtcStatVars >>

\* the close event of a socket on which close() was called
RtcOnClose(s) ==
    /\ RtcReact
    /\ rtcSockets[s].st = "closing"
    /\ RtcOnCloseHandler(s)

\* the close event of a socket whose connection was refused or lost
RtcConnectionLost(s) ==
    /\ RtcAct
    /\ rtcSockets[s].st \in WsLive
    /\ RtcOnCloseHandler(s)

\* the reconnect timer set by onclose fires: connectWebSocket of the closure
\* that set it
RtcReconnectTimer(c) ==
    /\ RtcReact
    /\ rtcTimers[c] > 0
    /\ rtcTimers' = [rtcTimers EXCEPT ![c] = @ - 1]
    /\ RtcConnectWebSocket(rtcSockets, c)
    /\ UNCHANGED << rtcMounted, rtcMessages, rtcIsProcessing, rtcEffectDep,
                    rtcRecVars, rtcStatVars >>

\* the incremental mean as onmessage computes it with the closure's
\* totalMessages n
RtcNewAvg(prev, n, pt) ==
    Frac(prev.num * n + pt * prev.den, prev.den * (n + 1))

\* wsRef.current.onmessage for a chat_response with processing_time pt, the
\* reply to a chat request sent over socket s
RtcOnMessage(s, pt) ==
    /\ RtcReact
    /\ rtcSockets[s].st = "open"
    /\ rtcSockets[s].req > 0
    /\ rtcSockets' = [rtcSockets EXCEPT ![s].req = @ - 1]
    /\ rtcMessages' = SetState(rtcMounted, rtcMessages,
           Append(rtcMessages, [id |-> clock, role |-> "assistant", pt |-> pt]))
    /\ rtcIsProcessing' = SetState(rtcMounted, rtcIsProcessing, FALSE)
    /\ rtcTotalMessages' = SetState(rtcMounted /\ pt # 0, rtcTotalMessages,
           rtcTotalMessages + 1)
    /\ rtcAvg' = SetState(rtcMounted /\ pt # 0, rtcAvg,
           RtcNewAvg(rtcAvg, rtcSockets[s].cap, pt))
    /\ UNCHANGED << rtcMounted, rtcWsRef, rtcTimers, rtcEffectDep, rtcRecVars >>

(***************************************************************************)
(* RealTimeChat: turns.                                                    *)
(***************************************************************************)
UserMessages(msgs) == SelectSeq(msgs, LAMBDA m : m.role = "user")

\* sendMessage(text), from the state in which the socket list is socks
RtcSendMessage(text, socks) ==
    /\ rtcMessages' = SetState(rtcMounted, rtcMessages,
           Append(rtcMessages, [id |-> clock, role |-> "user", text |-> text]))
    /\ rtcIsProcessing' = SetState(rtcMounted, rtcIsProcessing, TRUE)
    /\ rtcSockets' =
           IF rtcWsRef # 0 /\ socks[rtcWsRef].st = "open"
           THEN [socks EXCEPT ![rtcWsRef].req = @ + 1]
           ELSE socks

\* handleTextSubmit with inputText = typed; the input and the submit button
\* are disabled while isProcessing
RtcHandleTextSubmit(typed) ==
    /\ RtcUserEvent
    /\ ~rtcIsProcessing
    /\ Trim(typed) # Blank
    /\ RtcSendMessage(Trim(typed), rtcSockets)
    /\ UNCHANGED << rtcMounted, rtcWsRef, rtcTimers, rtcEffectDep, rtcRecVars,
                    rtcStatVars >>

(***************************************************************************)
(* RealTimeChat: recording.  A recorder is "recording", "stopped" (stop()  *)
(* was called, its stop event is queued), "transcribing" (the              *)
(* transcription request of its processAudio is in flight) or "done";      *)
(* live tells whether the tracks of its stream are live, that is whether   *)
(* the microphone is held through it.                                      *)
(***************************************************************************)
\* the record button while isRecording is false: startRecording up to the
\* await of getUserMedia
RtcStartRecording ==
    /\ RtcUserEvent
    /\ ~rtcIsProcessing
    /\ ~rtcIsRecording
    /\ rtcAcquiring' = rtcAcquiring + 1
    /\ UNCHANGED << rtcMounted, rtcMessages, rtcIsProcessing, rtcConnVars,
                    rtcRecorderRef, rtcRecs, rtcAudioChunks, rtcStrayStreams,
                    rtcIsRecording, rtcStatVars >>

\* startRecording after the await: getUserMedia rejected, or it returned a
\* stream and new MediaRecorder(stream) threw, or the recorder started
RtcGetUserMediaDone(outcome) ==
    /\ RtcReact
    /\ rtcAcquiring > 0
    /\ rtcAcquiring' = rtcAcquiring - 1
    /\ CASE outcome = "rejected" ->
               UNCHANGED << rtcRecorderRef, rtcRecs, rtcAudioChunks,
                            rtcStrayStreams, rtcIsRecording >>
         [] outcome = "recorderThrows" ->
               /\ rtcStrayStreams' = rtcStrayStreams + 1
               /\ UNCHANGED << rtcRecorderRef, rtcRecs, rtcAudioChunks,
                               rtcIsRecording >>
         [] outcome = "started" ->
               /\ rtcRecs' = Append(rtcRecs, [st |-> "recording", live |-> TRUE])
               /\ rtcRecorderRef' = Len(rtcRecs) + 1
               /\ rtcAudioChunks' = <<>>
               /\ rtcIsRecording' = SetState(rtcMounted, rtcIsRecording, TRUE)
               /\ UNCHANGED rtcStrayStreams
    /\ UNCHANGED << rtcMounted, rtcMessages, rtcIsProcessing, rtcConnVars,
                    rtcStatVars >>

\* stopRecording as it would be if it toggled isRecording when nothing is
\* recorded
RtcStopRecordingBodyToggles ==
    IF /\ rtcRecorderRef # 0 /\ rtcIsRecording
       /\ rtcRecs[rtcRecorderRef].st = "recording"
    THEN /\ rtcRecs' = [rtcRecs EXCEPT ![rtcRecorderRef].st = "stopped"]
         /\ rtcIsRecording' = FALSE
    ELSE /\ rtcIsRecording' = ~rtcIsRecording
         /\ UNCHANGED rtcRecs

\* stopRecording(); MediaRecorder.stop() throws on an inactive recorder
RtcStopRecordingBody ==
    IF /\ rtcRecorderRef # 0 /\ rtcIsRecording
       /\ rtcRecs[rtcRecorderRef].st = "recording"
    THEN /\ rtcRecs' = [rtcRecs EXCEPT ![rtcRecorderRef].st = "stopped"]
         /\ rtcIsRecording' = FALSE
    ELSE UNCHANGED << rtcRecs, rtcIsRecording >>

\* the record button while isRecording is true
RtcStopRecording ==
    /\ RtcUserEvent
    /\ ~rtcIsProcessing
    /\ rtcIsRecording
    /\ RtcStopRecordingBody
    /\ UNCHANGED << rtcMounted, rtcMessages, rtcIsProcessing, rtcConnVars,
                    rtcRecorderRef, rtcAudioChunks, rtcAcquiring,
                    rtcStrayStreams, rtcStatVars >>

\* stopRecording() of the current render called in any state of the mounted
\* component, not only through the record button
RtcStopRecordingCall ==
    /\ rtcActs < MaxActs
    /\ rtcActs' = rtcActs + 1
    /\ rtcMounted
    /\ RtcStopRecordingBody
    /\ idleStops' = IF rtcRecorderRef # 0 /\ rtcIsRecording
                     THEN idleStops
                     ELSE [idleStops EXCEPT !["rtc"] = @ + 1]
    /\ UNCHANGED << rtcMounted, rtcMessages, rtcIsProcessing, rtcConnVars,
                    rtcRecorderRef, rtcAudioChunks, rtcAcquiring,
                    rtcStrayStreams, rtcStatVars >>
    /\ UNCHANGED << avcVars, plVars, polVars, clock >>

\* the stop of recorder r: its dataavailable event, then onstop up to the
\* await inside processAudio (the transcription request is sent)
RtcRecorderOnStop(r) ==
    /\ RtcReact
    /\ rtcRecs[r].st = "stopped"
    /\ rtcAudioChunks' = Append(rtcAudioChunks, r)
    /\ rtcRecs' = [rtcRecs EXCEPT ![r].st = "transcribing"]
    /\ rtcIsProcessing' = SetState(rtcMounted, rtcIsProcessing, TRUE)
    /\ UNCHANGED << rtcMounted, rtcMessages, rtcConnVars, rtcRecorderRef,
                    rtcAcquiring, rtcStrayStreams, rtcIsRecording, rtcStatVars >>

SttOutcomes ==
    {[kind |-> "notOk"], [kind |-> "throws"]}
        \cup {[kind |-> "ok", text |-> t] : t \in Utterances}

\* processAudio after the await of the transcription request, then the rest
\* of onstop: the tracks of the recorder's stream are stopped
RtcTranscriptionDone(r, out) ==
    /\ RtcReact
    /\ rtcRecs[r].st = "transcribing"
    /\ rtcRecs' = [rtcRecs EXCEPT ![r] = [st |-> "done", live |-> FALSE]]
    /\ CASE out.kind = "notOk" ->
               UNCHANGED << rtcMessages, rtcIsProcessing, rtcSockets >>
         [] out.kind = "throws" ->
               /\ rtcIsProcessing' = SetState(rtcMounted, rtcIsProcessing, FALSE)
               /\ UNCHANGED << rtcMessages, rtcSockets >>
         [] out.kind = "ok" /\ Trim(out.text) = Blank ->
               /\ rtcIsProcessing' = SetState(rtcMounted, rtcIsProcessing, FALSE)
               /\ UNCHANGED << rtcMessages, rtcSockets >>
         [] out.kind = "ok" /\ Trim(out.text) # Blank ->
               RtcSendMessage(out.text, rtcSockets)
    /\ UNCHANGED << rtcMounted, rtcWsRef, rtcTimers, rtcEffectDep,
                    rtcRecorderRef, rtcAudioChunks, rtcAcquiring,
                    rtcStrayStreams, rtcIsRecording, rtcStatVars >>

RtcNext ==
    \/ RtcRunEffect
    \/ RtcUnmount
    \/ \E s \in DOMAIN rtcSockets : RtcOnOpen(s)
    \/ \E s \in DOMAIN rtcSockets : RtcOnClose(s)
    \/ \E s \in DOMAIN rtcSockets : RtcConnectionLost(s)
    \/ \E c \in DOMAIN rtcTimers : RtcReconnectTimer(c)
    \/ \E s \in DOMAIN rtcSockets, pt \in Latencies : RtcOnMessage(s, pt)
    \/ \E typed \in Utterances : RtcHandleTextSubmit(typed)
    \/ RtcStartRecording
    \/ \E o \in {"rejected", "recorderThrows", "started"} : RtcGetUserMediaDone(o)
    \/ RtcStopRecording
    \/ \E r \in DOMAIN rtcRecs : RtcRecorderOnStop(r)
    \/ \E r \in DOMAIN rtcRecs, out \in SttOutcomes : RtcTranscriptionDone(r, out)

(***************************************************************************)
(* AdvancedVoiceChat: the WebSocket connection.  A socket is "connecting", *)
(* "open" or "closed"; est tells that it was established (onopen ran),     *)
(* failing that its connection failed or close() was called on it, so that *)
(* its close event is due.                                                 *)
(***************************************************************************)
AvcAct == avcActs < MaxActs /\ avcActs' = avcActs + 1 /\ UNCHANGED << rtcVars, plVars, polVars, envVars >>
AvcReact == avcActs' = avcActs /\ UNCHANGED << rtcVars, plVars, polVars, envVars >>

AvcNewSocket == [st |-> "connecting", est |-> FALSE, failing |-> FALSE]

\* connectWebSocket(): new WebSocket(...) returns a socket or throws
AvcConnectWebSocket(thrown) ==
    IF thrown
    THEN /\ avcConnectionStatus' =
                SetState(avcMounted, avcConnectionStatus, "disconnected")
         /\ UNCHANGED avcSockets
    ELSE /\ avcConnectionStatus' =
                SetState(avcMounted, avcConnectionStatus, "connecting")
         /\ avcSockets' = Append(avcSockets, AvcNewSocket)

\* the state after the mount effect has called connectWebSocket
AvcInit ==
    /\ avcMounted = TRUE
    /\ avcWsConnection = 0
    /\ avcTimers = 0
    /\ avcActs = 0
    /\ \/ /\ avcConnectionStatus = "connecting"
          /\ avcSockets = << AvcNewSocket >>
       \/ /\ avcConnectionStatus = "disconnected"
          /\ avcSockets = << >>

\* wsConnection as the cleanup of the mount effect sees it: the value of the
\* first render, since the effect has no dependencies
AvcCleanupWsConnection == 0

\* unmount: the cleanup of the mount effect
AvcUnmount ==
    /\ AvcAct
    /\ avcMounted
    /\ avcMounted' = FALSE
    /\ avcSockets' = IF AvcCleanupWsConnection # 0
                     THEN [avcSockets EXCEPT ![AvcCleanupWsConnection].failing = TRUE]
                     ELSE avcSockets
    /\ UNCHANGED << avcConnectionStatus, avcWsConnection, avcTimers, avcTurnVars >>

\* ws.onopen as it would be if it set the status only
AvcOnOpenStatusOnly(s) ==
    /\ AvcReact
    /\ avcSockets[s].st = "connecting" /\ ~avcSockets[s].failing
    /\ avcSockets' = [avcSockets EXCEPT ![s].st = "open", ![s].est = TRUE]
    /\ avcConnectionStatus' = SetState(avcMounted, avcConnectionStatus, "connected")
    /\ UNCHANGED << avcMounted, avcWsConnection, avcTimers, avcTurnVars >>

\* ws.onopen
AvcOnOpen(s) ==
    /\ AvcReact
    /\ avcSockets[s].st = "connecting" /\ ~avcSockets[s].failing
    /\ avcSockets' = [avcSockets EXCEPT ![s].st = "open", ![s].est = TRUE]
    /\ avcConnectionStatus' = SetState(avcMounted, avcConnectionStatus, "connected")
    /\ avcWsConnection' = SetState(avcMounted, avcWsConnection, s)
    /\ UNCHANGED << avcMounted, avcTimers, avcTurnVars >>

\* ws.onerror as it would be if it scheduled a reconnection of its own
AvcOnErrorReconnects(s) ==
    /\ AvcAct
    /\ avcSockets[s].st \in WsLive /\ ~avcSockets[s].failing
    /\ avcSockets' = [avcSockets EXCEPT ![s].failing = TRUE]
    /\ avcConnectionStatus' =
           SetState(avcMounted, avcConnectionStatus, "disconnected")
    /\ avcTimers' = avcTimers + 1
    /\ UNCHANGED << avcMounted, avcWsConnection, avcTurnVars >>

\* ws.onerror: the connection failed; the socket's close event follows
AvcOnError(s) ==
    /\ AvcAct
    /\ avcSockets[s].st \in WsLive /\ ~avcSockets[s].failing
    /\ avcSockets' = [avcSockets EXCEPT ![s].failing = TRUE]
    /\ avcConnectionStatus' =
           SetState(avcMounted, avcConnectionStatus, "disconnected")
    /\ UNCHANGED << avcMounted, avcWsConnection, avcTimers, avcTurnVars >>

\* ws.onclose
AvcOnCloseHandler(s) ==
    /\ avcSockets' = [avcSockets EXCEPT ![s].st = "closed"]
    /\ avcConnectionStatus' =
           SetState(avcMounted, avcConnectionStatus, "disconnected")
    /\ avcWsConnection' = SetState(avcMounted, avcWsConnection, 0)
    /\ avcTimers' = avcTimers + 1
    /\ UNCHANGED << avcMounted, avcTurnVars >>

\* the close event that follows an error event or close()
AvcOnClose(s) ==
    /\ AvcReact
    /\ avcSockets[s].st \in WsLive /\ avcSockets[s].failing
    /\ AvcOnCloseHandler(s)

\* the close event of a connection that the server closed
AvcConnectionLost(s) ==
    /\ AvcAct
    /\ avcSockets[s].st \in WsLive /\ ~avcSockets[s].failing
    /\ AvcOnCloseHandler(s)

\* the reconnect timer fires
AvcReconnectTimer(thrown) ==
    /\ AvcReact
    /\ avcTimers > 0
    /\ avcTimers' = avcTimers - 1
    /\ AvcConnectWebSocket(thrown)
    /\ UNCHANGED << avcMounted, avcWsConnection, avcTurnVars >>

AvcNext ==
    \/ AvcUnmount
    \/ \E s \in DOMAIN avcSockets : AvcOnOpen(s)
    \/ \E s \in DOMAIN avcSockets : AvcOnError(s)
    \/ \E s \in DOMAIN avcSockets : AvcOnClose(s)
    \/ \E s \in DOMAIN avcSockets : AvcConnectionLost(s)
    \/ \E thrown \in BOOLEAN : AvcReconnectTimer(thrown)

(***************************************************************************)
(* AdvancedVoiceChat: turns, recording and the model selection state.      *)
(* Handlers created by a render read the state of that render: the onstop  *)
(* of a recorder calls the processAudio, and through it the sendMessage,   *)
(* of the render in which the record button was clicked.                   *)
(***************************************************************************)
Models == {"gemma2:2b", "llama3:8b"}
Modes == {"speed", "balanced", "quality"}
\* model_preference: null
Null == "null"

\* the state the handlers of the current render close over
AvcClosure ==
    [chunks |-> avcAudioChunks, mode |-> avcConversationMode,
     auto |-> avcAutoModelSwitch, model |-> avcCurrentModel]

\* the state after the mount effect has called initializeApp
AvcTurnInit ==
    /\ avcMessages = << >>
    /\ avcIsRecording = FALSE
    /\ avcIsProcessing = FALSE
    /\ avcCurrentModel = "gemma2:2b"
    /\ avcAvailableModels = {}
    /\ avcConversationMode = "balanced"
    /\ avcAutoModelSwitch = TRUE
    /\ avcMediaRecorder = 0
    /\ avcAudioChunks = << >>
    /\ avcAcquiring = << >>
    /\ avcStrayStreams = 0
    /\ avcRecs = << >>
    /\ avcSent = 0
    /\ avcChats = {}
    /\ avcFetches = SetToBag({[kind |-> "models", arg |-> Null]})

\* an event handler of the mounted component
AvcUserEvent == AvcAct /\ avcMounted /\ UNCHANGED avcConnVars

\* a callback or the continuation of an await
AvcCallback == AvcReact /\ UNCHANGED avcConnVars

\* initializeApp after the await of GET /models: the models listed as
\* available and the current model, or the catch
AvcInitializeAppDone(ok, available, current) ==
    /\ AvcCallback
    /\ BagIn([kind |-> "models", arg |-> Null], avcFetches)
    /\ avcFetches' = avcFetches (-) SetToBag({[kind |-> "models", arg |-> Null]})
    /\ avcAvailableModels' =
           SetState(avcMounted /\ ok, avcAvailableModels, available)
    /\ avcCurrentModel' = SetState(avcMounted /\ ok, avcCurrentModel, current)
    /\ UNCHANGED << avcMessages, avcIsProcessing, avcSent, avcChats, avcRecVars,
                    avcConversationMode, avcAutoModelSwitch >>

\* handleWebSocketMessage for a 'connected' event that carries current_model
\* or a 'model_switched' event, received over the open socket s
AvcHandleWebSocketMessage(s, type, model) ==
    /\ AvcAct
    /\ avcSockets[s].st = "open" /\ ~avcSockets[s].failing
    /\ type \in {"connected", "model_switched"}
    /\ avcCurrentModel' = SetState(avcMounted, avcCurrentModel, model)
    /\ UNCHANGED << avcConnVars, avcMessages, avcIsProcessing, avcSent, avcChats,
                    avcFetches, avcRecVars, avcAvailableModels,
                    avcConversationMode, avcAutoModelSwitch >>

\* sendMessage(text) of the render with closure clo, up to the await of
\* POST /chat; voice tells that processAudio awaits it
AvcSendMessage(text, clo, voice) ==
    IF Trim(text) = Blank
    THEN UNCHANGED << avcMessages, avcIsProcessing, avcSent, avcChats >>
    ELSE /\ avcMessages' = SetState(avcMounted, avcMessages,
                Append(avcMessages,
                       [id |-> clock, isUser |-> TRUE, turn |-> avcSent + 1,
                        text |-> text, stats |-> FALSE]))
         /\ avcIsProcessing' = SetState(avcMounted, avcIsProcessing, TRUE)
         /\ avcSent' = avcSent + 1
         /\ avcChats' = avcChats \cup
                {[turn |-> avcSent + 1, mode |-> clo.mode,
                  pref |-> IF clo.auto THEN Null ELSE clo.model,
                  voice |-> voice]}

\* the send button or the Enter key with inputText = typed; the input and
\* the button are disabled while isProcessing
AvcSubmitText(typed) ==
    /\ AvcUserEvent
    /\ ~avcIsProcessing
    /\ AvcSendMessage(typed, AvcClosure, FALSE)
    /\ UNCHANGED << avcFetches, avcRecVars, avcModelVars >>

\* the bodies POST /chat can answer with, and its failure
ChatOutcomes ==
    {[kind |-> k, model |-> m] : k \in {"reply", "noResponse"}, m \in Models}
        \cup {[kind |-> k, model |-> Null] : k \in {"noStats", "nonJson", "networkError"}}

\* the messages sendMessage appends after the await: the assistant message
\* built from the body, and the apology of the catch
AvcReplyMessages(turn, out) ==
    LET assistant == [id |-> clock + 1, isUser |-> FALSE, turn |-> turn,
                      text |-> IF out.kind = "reply" THEN <<"r">> ELSE Blank,
                      stats |-> out.kind # "noStats"]
        apology == [id |-> clock + 1, isUser |-> FALSE, turn |-> turn,
                    text |-> <<"e">>,
                    stats |-> FALSE]
    IN  CASE out.kind \in {"reply", "noResponse"} -> << assistant >>
          [] out.kind = "noStats" -> << assistant, apology >>
          [] OTHER -> << apology >>

\* sendMessage after the await of POST /chat for request c, with its catch
\* and finally; then the finally of the processAudio that awaited it
AvcChatDone(c, out) ==
    /\ AvcCallback
    /\ c \in avcChats
    /\ avcChats' = avcChats \ {c}
    /\ avcMessages' = SetState(avcMounted, avcMessages,
           avcMessages \o AvcReplyMessages(c.turn, out))
    /\ avcCurrentModel' =
           SetState(avcMounted /\ out.kind \in {"reply", "noResponse"},
                    avcCurrentModel, out.model)
    /\ avcIsProcessing' = SetState(avcMounted, avcIsProcessing, FALSE)
    /\ avcAudioChunks' = SetState(avcMounted /\ c.voice, avcAudioChunks, << >>)
    /\ UNCHANGED << avcSent, avcFetches, avcIsRecording, avcMediaRecorder,
                    avcAcquiring, avcStrayStreams, avcRecs, avcAvailableModels,
                    avcConversationMode, avcAutoModelSwitch >>

(***************************************************************************)
(* AdvancedVoiceChat: recording.  A recorder is "recording", "stopped"     *)
(* (stop() was called, its events are queued), "transcribing" (the request *)
(* of its processAudio to /transcribe is in flight) or "done"; live tells  *)
(* whether the tracks of its stream are live; clo is the closure of the    *)
(* render in which its startRecording was called.                          *)
(***************************************************************************)
\* the record button while isRecording is false: startRecording up to the
\* await of getUserMedia
AvcStartRecording ==
    /\ AvcUserEvent
    /\ ~avcIsProcessing
    /\ ~avcIsRecording
    /\ avcAcquiring' = Append(avcAcquiring, AvcClosure)
    /\ UNCHANGED << avcMessages, avcIsProcessing, avcSent, avcChats, avcFetches,
                    avcIsRecording, avcMediaRecorder, avcAudioChunks,
                    avcStrayStreams, avcRecs, avcModelVars >>

\* startRecording number i after the await: getUserMedia rejected, or it
\* returned a stream and new MediaRecorder(stream) threw, or the recorder
\* started
AvcGetUserMediaDone(i, outcome) ==
    /\ AvcCallback
    /\ i \in DOMAIN avcAcquiring
    /\ avcAcquiring' = SubSeq(avcAcquiring, 1, i - 1)
                           \o SubSeq(avcAcquiring, i + 1, Len(avcAcquiring))
    /\ CASE outcome = "rejected" ->
               UNCHANGED << avcIsRecording, avcMediaRecorder, avcAudioChunks,
                            avcStrayStreams, avcRecs >>
         [] outcome = "recorderThrows" ->
               /\ avcStrayStreams' = avcStrayStreams + 1
               /\ UNCHANGED << avcIsRecording, avcMediaRecorder, avcAudioChunks,
                               avcRecs >>
         [] outcome = "started" ->
               /\ avcRecs' = Append(avcRecs, [st |-> "recording", live |-> TRUE,
                                              clo |-> avcAcquiring[i]])
               /\ avcMediaRecorder' =
                      SetState(avcMounted, avcMediaRecorder, Len(avcRecs) + 1)
               /\ avcAudioChunks' = SetState(avcMounted, avcAudioChunks, << >>)
               /\ avcIsRecording' = SetState(avcMounted, avcIsRecording, TRUE)
               /\ UNCHANGED avcStrayStreams
    /\ UNCHANGED << avcMessages, avcIsProcessing, avcSent, avcChats, avcFetches,
                    avcModelVars >>

\* stopRecording(); MediaRecorder.stop() throws on an inactive recorder
AvcStopRecordingBody ==
    IF /\ avcMediaRecorder # 0 /\ avcIsRecording
       /\ avcRecs[avcMediaRecorder].st = "recording"
    THEN /\ avcRecs' = [avcRecs EXCEPT ![avcMediaRecorder].st = "stopped"]
         /\ avcIsRecording' = FALSE
    ELSE UNCHANGED << avcRecs, avcIsRecording >>

\* the record button while isRecording is true: stopRecording();
\* MediaRecorder.stop() throws on an inactive recorder.  The click that ends
\* a recording belongs to the action that began it.
AvcStopRecording ==
    /\ AvcReact
    /\ avcMounted
    /\ ~avcIsProcessing
    /\ avcIsRecording
    /\ AvcStopRecordingBody
    /\ UNCHANGED << avcConnVars, avcMessages, avcIsProcessing, avcSent, avcChats,
                    avcFetches, avcMediaRecorder, avcAudioChunks, avcAcquiring,
                    avcStrayStreams, avcModelVars >>

\* stopRecording() of the current render called in any state of the mounted
\* component, not only through the record button
AvcStopRecordingCall ==
    /\ avcActs < MaxActs
    /\ avcActs' = avcActs + 1
    /\ avcMounted
    /\ AvcStopRecordingBody
    /\ idleStops' = IF avcMediaRecorder # 0 /\ avcIsRecording
                     THEN idleStops
                     ELSE [idleStops EXCEPT !["avc"] = @ + 1]
    /\ UNCHANGED << avcConnVars, avcMessages, avcIsProcessing, avcSent, avcChats,
                    avcFetches, avcMediaRecorder, avcAudioChunks, avcAcquiring,
                    avcStrayStreams, avcModelVars >>
    /\ UNCHANGED << rtcVars, plVars, polVars, clock >>

\* the stop of recorder r: ondataavailable with a blob that holds data or
\* is empty, then onstop: processAudio() of the recorder's closure up to its
\* first await, then the tracks of the stream are stopped
AvcRecorderOnStop(r, hasData) ==
    /\ AvcCallback
    /\ avcRecs[r].st = "stopped"
    /\ avcAudioChunks' =
           SetState(avcMounted /\ hasData, avcAudioChunks, Append(avcAudioChunks, r))
    /\ IF avcRecs[r].clo.chunks = << >>
       THEN /\ avcRecs' = [avcRecs EXCEPT ![r].st = "done", ![r].live = FALSE]
            /\ UNCHANGED avcIsProcessing
       ELSE /\ avcRecs' = [avcRecs EXCEPT ![r].st = "transcribing",
                                          ![r].live = FALSE]
            /\ avcIsProcessing' = SetState(avcMounted, avcIsProcessing, TRUE)
    /\ UNCHANGED << avcMessages, avcSent, avcChats, avcFetches, avcIsRecording,
                    avcMediaRecorder, avcAcquiring, avcStrayStreams, avcModelVars >>

\* what POST /transcribe can answer: a network failure, a body that is not
\* JSON, a JSON body without text, or a text
AvcSttOutcomes ==
    {[kind |-> k, text |-> Blank] : k \in {"networkError", "nonJson", "noText"}}
        \cup {[kind |-> "ok", text |-> t] : t \in Utterances}

\* the transcription failed or found no speech
AvcSttFailed(out) == out.kind # "ok" \/ Trim(out.text) = Blank

\* processAudio as it would be if its catch reported the failure in the
\* chat, as the catch of sendMessage does
AvcTranscriptionDoneReports(r, out) ==
    /\ AvcCallback
    /\ avcRecs[r].st = "transcribing"
    /\ avcRecs' = [avcRecs EXCEPT ![r].st = "done"]
    /\ IF AvcSttFailed(out)
       THEN /\ avcIsProcessing' = SetState(avcMounted, avcIsProcessing, FALSE)
            /\ avcAudioChunks' = SetState(avcMounted, avcAudioChunks, << >>)
            /\ avcMessages' = SetState(avcMounted /\ out.kind # "ok", avcMessages,
                   Append(avcMessages, [id |-> clock + 1, isUser |-> FALSE, turn |-> 0,
                                        text |-> <<"e">>, stats |-> FALSE]))
            /\ UNCHANGED << avcSent, avcChats >>
       ELSE /\ AvcSendMessage(Trim(out.text), avcRecs[r].clo, TRUE)
            /\ UNCHANGED avcAudioChunks
    /\ UNCHANGED << avcFetches, avcIsRecording, avcMediaRecorder, avcAcquiring,
                    avcStrayStreams, avcModelVars >>

\* processAudio of recorder r after the await of POST /transcribe: the
\* catch and the finally when no text came back, else sendMessage up to its
\* await
AvcTranscriptionDone(r, out) ==
    /\ AvcCallback
    /\ avcRecs[r].st = "transcribing"
    /\ avcRecs' = [avcRecs EXCEPT ![r].st = "done"]
    /\ IF AvcSttFailed(out)
       THEN /\ avcIsProcessing' = SetState(avcMounted, avcIsProcessing, FALSE)
            /\ avcAudioChunks' = SetState(avcMounted, avcAudioChunks, << >>)
            /\ UNCHANGED << avcMessages, avcSent, avcChats >>
       ELSE /\ AvcSendMessage(Trim(out.text), avcRecs[r].clo, TRUE)
            /\ UNCHANGED avcAudioChunks
    /\ UNCHANGED << avcFetches, avcIsRecording, avcMediaRecorder, avcAcquiring,
                    avcStrayStreams, avcModelVars >>

(***************************************************************************)
(* AdvancedVoiceChat: the settings panel.                                  *)
(***************************************************************************)
\* a request of kind k with argument arg is sent
AvcFetch(k, arg) ==
    avcFetches' = avcFetches (+) SetToBag({[kind |-> k, arg |-> arg]})

\* the response to a request of kind k with argument arg arrives
AvcFetchDone(k, arg) ==
    /\ BagIn([kind |-> k, arg |-> arg], avcFetches)
    /\ avcFetches' = avcFetches (-) SetToBag({[kind |-> k, arg |-> arg]})

\* the checkbox 'Troca automatica de modelo'
AvcSetAutoModelSwitch(checked) ==
    /\ AvcUserEvent
    /\ checked = ~avcAutoModelSwitch
    /\ avcAutoModelSwitch' = checked
    /\ UNCHANGED << avcMessages, avcIsProcessing, avcSent, avcChats, avcFetches,
                    avcRecVars, avcCurrentModel, avcAvailableModels,
                    avcConversationMode >>

\* the button of model modelName, disabled unless the model is available:
\* switchModel up to the await of POST /switch-model
AvcSwitchModel(modelName) ==
    /\ AvcUserEvent
    /\ modelName \in avcAvailableModels
    /\ AvcFetch("switch", modelName)
    /\ UNCHANGED << avcMessages, avcIsProcessing, avcSent, avcChats, avcRecVars,
                    avcModelVars >>

\* switchModel as it would be if it took the requested model without
\* waiting for the answer of the backend
AvcSwitchModelDoneOptimistic(modelName, ok, current) ==
    /\ AvcCallback
    /\ AvcFetchDone("switch", modelName)
    /\ avcCurrentModel' = SetState(avcMounted, avcCurrentModel, modelName)
    /\ UNCHANGED << avcMessages, avcIsProcessing, avcSent, avcChats, avcRecVars,
                    avcAvailableModels, avcConversationMode, avcAutoModelSwitch >>

\* switchModel after the await: response.ok with the model the backend
\* confirms, or not ok, or the catch
AvcSwitchModelDone(modelName, ok, current) ==
    /\ AvcCallback
    /\ AvcFetchDone("switch", modelName)
    /\ avcCurrentModel' = SetState(avcMounted /\ ok, avcCurrentModel, current)
    /\ UNCHANGED << avcMessages, avcIsProcessing, avcSent, avcChats, avcRecVars,
                    avcAvailableModels, avcConversationMode, avcAutoModelSwitch >>

\* a mode button: updateConversationMode up to the await of POST /config
AvcUpdateConversationMode(mode) ==
    /\ AvcUserEvent
    /\ AvcFetch("config", mode)
    /\ UNCHANGED << avcMessages, avcIsProcessing, avcSent, avcChats, avcRecVars,
                    avcModelVars >>

\* updateConversationMode as it would be without the check of response.ok
AvcUpdateConversationModeDoneUnchecked(mode, ok) ==
    /\ AvcCallback
    /\ AvcFetchDone("config", mode)
    /\ avcConversationMode' = SetState(avcMounted, avcConversationMode, mode)
    /\ UNCHANGED << avcMessages, avcIsProcessing, avcSent, avcChats, avcRecVars,
                    avcCurrentModel, avcAvailableModels, avcAutoModelSwitch >>

\* updateConversationMode after the await
AvcUpdateConversationModeDone(mode, ok) ==
    /\ AvcCallback
    /\ AvcFetchDone("config", mode)
    /\ avcConversationMode' = SetState(avcMounted /\ ok, avcConversationMode, mode)
    /\ UNCHANGED << avcMessages, avcIsProcessing, avcSent, avcChats, avcRecVars,
                    avcCurrentModel, avcAvailableModels, avcAutoModelSwitch >>

\* the button 'Limpar Historico': clearHistory up to the await of DELETE
AvcClearHistory ==
    /\ AvcUserEvent
    /\ AvcFetch("clear", Null)
    /\ UNCHANGED << avcMessages, avcIsProcessing, avcSent, avcChats, avcRecVars,
                    avcModelVars >>

\* clearHistory as it would be if it emptied the history in a finally
AvcClearHistoryDoneAlways(resolved) ==
    /\ AvcCallback
    /\ AvcFetchDone("clear", Null)
    /\ avcMessages' = SetState(avcMounted, avcMessages, << >>)
    /\ UNCHANGED << avcIsProcessing, avcSent, avcChats, avcRecVars, avcModelVars >>

\* clearHistory after the await: fetch resolved, or it rejected (catch)
AvcClearHistoryDone(resolved) ==
    /\ AvcCallback
    /\ AvcFetchDone("clear", Null)
    /\ avcMessages' = SetState(avcMounted /\ resolved, avcMessages, << >>)
    /\ UNCHANGED << avcIsProcessing, avcSent, avcChats, avcRecVars, avcModelVars >>

\* the turn pipeline: text and voice turns
AvcTurnNext ==
    \/ AvcUnmount
    \/ \E typed \in Utterances : AvcSubmitText(typed)
    \/ \E c \in avcChats, out \in ChatOutcomes : AvcChatDone(c, out)
    \/ AvcStartRecording
    \/ \E i \in DOMAIN avcAcquiring,
          o \in {"rejected", "recorderThrows", "started"} : AvcGetUserMediaDone(i, o)
    \/ AvcStopRecording
    \/ \E r \in DOMAIN avcRecs, hasData \in BOOLEAN : AvcRecorderOnStop(r, hasData)
    \/ \E r \in DOMAIN avcRecs, out \in AvcSttOutcomes : AvcTranscriptionDone(r, out)

\* the turn pipeline together with the settings panel, initializeApp and
\* the events of the WebSocket
AvcSessionNext ==
    \/ AvcTurnNext
    \/ \E s \in DOMAIN avcSockets : AvcOnOpen(s)
    \/ \E s \in DOMAIN avcSockets, type \in {"connected", "model_switched"},
          model \in Models : AvcHandleWebSocketMessage(s, type, model)
    \/ \E ok \in BOOLEAN, available \in SUBSET Models, current \in Models :
          AvcInitializeAppDone(ok, available, current)
    \/ \E checked \in BOOLEAN : AvcSetAutoModelSwitch(checked)
    \/ \E m \in Models : AvcSwitchModel(m)
    \/ \E m \in Models, ok \in BOOLEAN, current \in Models :
          AvcSwitchModelDone(m, ok, current)
    \/ \E mode \in Modes : AvcUpdateConversationMode(mode)
    \/ \E mode \in Modes, ok \in BOOLEAN : AvcUpdateConversationModeDone(mode, ok)
    \/ AvcClearHistory
    \/ \E resolved \in BOOLEAN : AvcClearHistoryDone(resolved)

(***************************************************************************)
(* useAudioPlayer.  An Audio element is "starting" (audio.play() was       *)
(* called, its promise is pending), "playing", "aborting" (pause() was     *)
(* called while starting: the promise of play() is about to reject),       *)
(* "paused", "ended" or "failed"; revoked tells whether its object URL was *)
(* revoked.                                                                *)
(***************************************************************************)
PlAct == plActs < MaxActs /\ plActs' = plActs + 1 /\ UNCHANGED << rtcVars, avcVars, polVars, envVars >>
PlReact == plActs' = plActs /\ UNCHANGED << rtcVars, avcVars, polVars, envVars >>

PlInit ==
    /\ plIsPlaying = FALSE
    /\ plCurrentTime = 0
    /\ plAudioRef = 0
    /\ plAudios = << >>
    /\ plSynthesizing = 0
    /\ plActs = 0

\* HTMLMediaElement.pause()
AudioPause(audios, a) ==
    IF a = 0 THEN audios
    ELSE CASE audios[a].st = "playing" -> [audios EXCEPT ![a].st = "paused"]
           [] audios[a].st = "starting" -> [audios EXCEPT ![a].st = "aborting"]
           [] OTHER -> audios

\* playAudio as it would be if it did not pause the current element first
PlPlayAudioKeepsCurrent ==
    /\ plAudios' = Append(plAudios, [st |-> "starting", revoked |-> FALSE])
    /\ plAudioRef' = Len(plAudios) + 1
    /\ plIsPlaying' = TRUE
    /\ UNCHANGED plCurrentTime

\* playAudio(audioBlob) up to the await of audio.play()
PlPlayAudio ==
    /\ plAudios' = Append(AudioPause(plAudios, plAudioRef),
                          [st |-> "starting", revoked |-> FALSE])
    /\ plAudioRef' = Len(plAudios) + 1
    /\ plIsPlaying' = TRUE
    /\ UNCHANGED plCurrentTime

\* the play button of a message, disabled while isPlayingAudio:
\* handlePlayAudio up to the await of apiClient.textToSpeech
PlHandlePlayAudio ==
    /\ PlAct
    /\ ~plIsPlaying
    /\ plSynthesizing' = plSynthesizing + 1
    /\ UNCHANGED << plIsPlaying, plCurrentTime, plAudioRef, plAudios >>

\* handlePlayAudio as it would be if its catch removed the message that
\* could not be synthesised
PlSynthesisDoneDropsMessage(ok) ==
    /\ plActs' = plActs
    /\ UNCHANGED << rtcVars, polVars, envVars >>
    /\ IF ok \/ avcMessages = << >>
       THEN UNCHANGED avcVars
       ELSE /\ avcMessages' = SubSeq(avcMessages, 1, Len(avcMessages) - 1)
            /\ UNCHANGED << avcConnVars, avcActs, avcIsProcessing, avcSent,
                            avcChats, avcFetches, avcRecVars, avcModelVars >>
    /\ plSynthesizing > 0
    /\ plSynthesizing' = plSynthesizing - 1
    /\ IF ok THEN PlPlayAudio
             ELSE UNCHANGED << plIsPlaying, plCurrentTime, plAudioRef, plAudios >>

\* handlePlayAudio after the await: the synthesis failed (catch), or it
\* returned the audio and playAudio is called
PlSynthesisDone(ok) ==
    /\ PlReact
    /\ plSynthesizing > 0
    /\ plSynthesizing' = plSynthesizing - 1
    /\ IF ok THEN PlPlayAudio
             ELSE UNCHANGED << plIsPlaying, plCurrentTime, plAudioRef, plAudios >>

\* the promise of audio.play() resolves: playback began
PlPlayResolved(a) ==
    /\ PlReact
    /\ plAudios[a].st = "starting"
    /\ plAudios' = [plAudios EXCEPT ![a].st = "playing"]
    /\ UNCHANGED << plIsPlaying, plCurrentTime, plAudioRef, plSynthesizing >>

\* the 'timeupdate' listener
PlOnTimeUpdate(a) ==
    /\ PlReact
    /\ plAudios[a].st = "playing"
    /\ plCurrentTime' = 1
    /\ UNCHANGED << plIsPlaying, plAudioRef, plAudios, plSynthesizing >>

\* the catch of playAudio as it would be if it did not reset isPlaying
PlPlayRejectedKeepsBusy(a) ==
    /\ PlReact
    /\ plAudios[a].st \in {"starting", "aborting"}
    /\ plAudios' = [plAudios EXCEPT
           ![a].st = IF @ = "aborting" THEN "paused" ELSE "failed"]
    /\ UNCHANGED << plIsPlaying, plCurrentTime, plAudioRef, plSynthesizing >>

\* the promise of audio.play() rejects (playback not allowed, or aborted
\* by pause()): the catch of playAudio
PlPlayRejected(a) ==
    /\ PlReact
    /\ plAudios[a].st \in {"starting", "aborting"}
    /\ plAudios' = [plAudios EXCEPT
           ![a].st = IF @ = "aborting" THEN "paused" ELSE "failed"]
    /\ plIsPlaying' = FALSE
    /\ UNCHANGED << plCurrentTime, plAudioRef, plSynthesizing >>

\* the 'ended' listener
PlOnEnded(a) ==
    /\ PlReact
    /\ plAudios[a].st = "playing"
    /\ plAudios' = [plAudios EXCEPT ![a] = [st |-> "ended", revoked |-> TRUE]]
    /\ plIsPlaying' = FALSE
    /\ plCurrentTime' = 0
    /\ UNCHANGED << plAudioRef, plSynthesizing >>

\* the 'error' listener: the audio cannot be loaded or decoded; a pending
\* promise of play() rejects with it
PlOnError(a) ==
    /\ PlReact
    /\ plAudios[a].st \in {"starting", "playing"}
    /\ plAudios' = [plAudios EXCEPT ![a] = [st |-> "failed", revoked |-> TRUE]]
    /\ plIsPlaying' = FALSE
    /\ UNCHANGED << plCurrentTime, plAudioRef, plSynthesizing >>

\* pauseAudio()
PlPauseAudio ==
    /\ PlAct
    /\ IF plAudioRef # 0
       THEN /\ plAudios' = AudioPause(plAudios, plAudioRef)
            /\ plIsPlaying' = FALSE
       ELSE UNCHANGED << plAudios, plIsPlaying >>
    /\ UNCHANGED << plCurrentTime, plAudioRef, plSynthesizing >>

\* stopAudio()
PlStopAudio ==
    /\ PlAct
    /\ IF plAudioRef # 0
       THEN /\ plAudios' = AudioPause(plAudios, plAudioRef)
            /\ plIsPlaying' = FALSE
            /\ plCurrentTime' = 0
       ELSE UNCHANGED << plAudios, plIsPlaying, plCurrentTime >>
    /\ UNCHANGED << plAudioRef, plSynthesizing >>

PlNext ==
    \/ PlHandlePlayAudio
    \/ \E ok \in BOOLEAN : PlSynthesisDone(ok)
    \/ \E a \in DOMAIN plAudios : PlPlayResolved(a)
    \/ \E a \in DOMAIN plAudios : PlOnTimeUpdate(a)
    \/ \E a \in DOMAIN plAudios : PlPlayRejected(a)
    \/ \E a \in DOMAIN plAudios : PlOnEnded(a)
    \/ \E a \in DOMAIN plAudios : PlOnError(a)
    \/ PlPauseAudio
    \/ PlStopAudio

(***************************************************************************)
(* The model selection policy.  POST /chat with model_preference null      *)
(* leaves the choice of the model to the backend, which is not part of     *)
(* the frontend sources; the policy is the one the specification states.   *)
(***************************************************************************)
\* the scales of ModelInfo in the model
MaxRating == 2
MaxTps == 1
MaxCost == 2

\* ModelInfo: speed_rating, quality_rating, available, the observed
\* performance.tokens_per_second (0: none observed) and the resource cost
\* class (size, ram_usage)
ModelInfos ==
    [speed_rating : 1..MaxRating, quality_rating : 1..MaxRating,
     available : BOOLEAN, tokens_per_second : 0..MaxTps, cost : 1..MaxCost]

NotListed == << >>
NotSelected == "none"
NoModelAvailable == "NoModelAvailable"

PolInit ==
    /\ polModels = NotListed
    /\ polMode = "balanced"
    /\ polSelected = NotSelected

PolStep == UNCHANGED << rtcVars, avcVars, plVars, envVars >>

\* the rating a mode maximises
PolScore(mode, info) ==
    CASE mode = "speed" -> info.speed_rating
      [] mode = "quality" -> info.quality_rating
      [] OTHER -> info.speed_rating + info.quality_rating

\* the models of set ms for which key, a number per model, is largest
PolArgMax(ms, key) == {m \in ms : \A n \in ms : key[m] >= key[n]}

\* the policy as it would be if it did not look at the availability flag
PolSelectModelAny(mode, models) ==
    LET best == PolArgMax(Models, [m \in Models |-> PolScore(mode, models[m])])
        fastest == PolArgMax(best, [m \in Models |-> models[m].tokens_per_second])
        cheapest == PolArgMax(fastest, [m \in Models |-> 0 - models[m].cost])
    IN  CHOOSE m \in cheapest : TRUE

\* the model for the next turn: among the available models the best rated
\* for the mode, then the highest tokens_per_second, then the lowest cost
\* class
PolSelectModel(mode, models) ==
    LET available == {m \in Models : models[m].available}
        best == PolArgMax(available, [m \in Models |-> PolScore(mode, models[m])])
        fastest == PolArgMax(best, [m \in Models |-> models[m].tokens_per_second])
        cheapest == PolArgMax(fastest, [m \in Models |-> 0 - models[m].cost])
    IN  IF available = {} THEN NoModelAvailable
        ELSE CHOOSE m \in cheapest : TRUE

\* listModels() answers
PolListModels(models) ==
    /\ PolStep
    /\ polModels = NotListed
    /\ polModels' = models
    /\ UNCHANGED << polMode, polSelected >>

\* the conversation mode is set
PolSetMode(mode) ==
    /\ PolStep
    /\ polSelected = NotSelected
    /\ polMode # mode
    /\ polMode' = mode
    /\ UNCHANGED << polModels, polSelected >>

\* a turn with no model pinned is dispatched: the policy selects
PolSelect ==
    /\ PolStep
    /\ polModels # NotListed
    /\ polSelected = NotSelected
    /\ polSelected' = PolSelectModel(polMode, polModels)
    /\ UNCHANGED << polModels, polMode >>

PolNext ==
    \/ /\ polModels = NotListed
       /\ \E models \in [Models -> ModelInfos] : PolListModels(models)
    \/ \E mode \in Modes : PolSetMode(mode)
    \/ PolSelect

(***************************************************************************)
(* Specifications, one per component.                                      *)
(***************************************************************************)
EnvInit ==
    /\ clock = 0
    /\ idleStops = [c \in {"rtc", "avc"} |-> 0]

\* a millisecond passes
ClockTick ==
    /\ clock < MaxClock
    /\ clock' = clock + 1
    /\ UNCHANGED << rtcVars, avcVars, plVars, polVars, idleStops >>

Init == RtcInit /\ AvcInit /\ AvcTurnInit /\ PlInit /\ PolInit /\ EnvInit

SpecRTC == Init /\ [][RtcNext]_vars
SpecAVC == Init /\ [][AvcNext]_vars
SpecAVCTurns == Init /\ [][AvcTurnNext]_vars
SpecAVCSession == Init /\ [][AvcSessionNext]_vars
SpecPlayer == Init /\ [][PlNext]_vars
SpecPolicy == Init /\ [][PolNext]_vars

\* the settings panel, initializeApp and the events of the WebSocket, with
\* text turns of one blank and one non-blank input
AvcSettingsNext ==
    \/ AvcUnmount
    \/ \E typed \in {<<SP>>, <<SP, "h">>} : AvcSubmitText(typed)
    \/ \E c \in avcChats, out \in ChatOutcomes : AvcChatDone(c, out)
    \/ \E s \in DOMAIN avcSockets : AvcOnOpen(s)
    \/ \E s \in DOMAIN avcSockets, type \in {"connected", "model_switched"},
          model \in Models : AvcHandleWebSocketMessage(s, type, model)
    \/ \E ok \in BOOLEAN, available \in SUBSET Models, current \in Models :
          AvcInitializeAppDone(ok, available, current)
    \/ \E checked \in BOOLEAN : AvcSetAutoModelSwitch(checked)
    \/ \E m \in Models : AvcSwitchModel(m)
    \/ \E m \in Models, ok \in BOOLEAN, current \in Models :
          AvcSwitchModelDone(m, ok, current)
    \/ \E mode \in Modes : AvcUpdateConversationMode(mode)
    \/ \E mode \in Modes, ok \in BOOLEAN : AvcUpdateConversationModeDone(mode, ok)

SpecAVCSettings == Init /\ [][AvcSettingsNext]_vars

\* text turns of AdvancedVoiceChat while time passes
AvcTimedNext ==
    \/ \E typed \in Utterances : AvcSubmitText(typed)
    \/ \E c \in avcChats, out \in ChatOutcomes : AvcChatDone(c, out)
    \/ ClockTick

SpecAVCTimed == Init /\ [][AvcTimedNext]_vars

\* the turn pipeline together with the clear button
AvcHistoryNext ==
    \/ AvcTurnNext
    \/ AvcClearHistory
    \/ \E resolved \in BOOLEAN : AvcClearHistoryDone(resolved)

SpecAVCHistory == Init /\ [][AvcHistoryNext]_vars

\* the play button of an assistant message of AdvancedVoiceChat, disabled
\* while isPlayingAudio: handlePlayAudio up to the await of textToSpeech
AvcPlayMessage ==
    /\ avcActs < MaxActs
    /\ avcActs' = avcActs + 1
    /\ avcMounted
    /\ \E i \in DOMAIN avcMessages : ~avcMessages[i].isUser
    /\ ~plIsPlaying
    /\ plSynthesizing' = plSynthesizing + 1
    /\ UNCHANGED << plIsPlaying, plCurrentTime, plAudioRef, plAudios, plActs >>
    /\ UNCHANGED << avcConnVars, avcTurnVars, rtcVars, polVars, envVars >>

\* text turns of AdvancedVoiceChat and the playback of their replies; the
\* component uses playAudio and isPlaying of the hook only
AvcPlaybackNext ==
    \/ \E typed \in Utterances : AvcSubmitText(typed)
    \/ \E c \in avcChats, out \in ChatOutcomes : AvcChatDone(c, out)
    \/ AvcPlayMessage
    \/ \E ok \in BOOLEAN : PlSynthesisDone(ok)
    \/ \E a \in DOMAIN plAudios : PlPlayResolved(a)
    \/ \E a \in DOMAIN plAudios : PlOnTimeUpdate(a)
    \/ \E a \in DOMAIN plAudios : PlPlayRejected(a)
    \/ \E a \in DOMAIN plAudios : PlOnEnded(a)
    \/ \E a \in DOMAIN plAudios : PlOnError(a)

SpecAVCPlayback == Init /\ [][AvcPlaybackNext]_vars

\* recording in both components up to the transcription request, with
\* stopRecording() called in any state
StopRecordingNext ==
    \/ RtcStartRecording
    \/ \E o \in {"rejected", "recorderThrows", "started"} : RtcGetUserMediaDone(o)
    \/ RtcStopRecording
    \/ RtcStopRecordingCall
    \/ \E r \in DOMAIN rtcRecs : RtcRecorderOnStop(r)
    \/ AvcStartRecording
    \/ \E i \in DOMAIN avcAcquiring,
          o \in {"rejected", "recorderThrows", "started"} : AvcGetUserMediaDone(i, o)
    \/ AvcStopRecording
    \/ AvcStopRecordingCall
    \/ \E r \in DOMAIN avcRecs, hasData \in BOOLEAN : AvcRecorderOnStop(r, hasData)

SpecStopRecording == Init /\ [][StopRecordingNext]_vars

\* the browser settles the promise of every audio.play()
PlPlaySettles == \E a \in DOMAIN plAudios : PlPlayResolved(a) \/ PlPlayRejected(a)
SpecPlayerFair == SpecPlayer /\ WF_vars(PlPlaySettles)

(***************************************************************************)
(* RealTimeChat: what the claims speak about.                              *)
(***************************************************************************)
RECURSIVE Sum(_)
\* the sum of a sequence of numbers
Sum(q) == IF q = <<>> THEN 0 ELSE Head(q) + Sum(Tail(q))

\* chat requests sent over a socket that is still open and not yet answered
RtcOutstanding ==
    Sum([s \in DOMAIN rtcSockets |->
            IF rtcSockets[s].st = "open" THEN rtcSockets[s].req ELSE 0])

\* media streams whose tracks are live: the microphone is held once per stream
RtcLiveStreams ==
    Sum([r \in DOMAIN rtcRecs |-> IF rtcRecs[r].live THEN 1 ELSE 0])
        + rtcStrayStreams

RtcPendingTimers == Sum([i \in 1..(MaxActs + 1) |-> rtcTimers[i - 1]])

RtcWsOpen == rtcWsRef # 0 /\ rtcSockets[rtcWsRef].st = "open"

RtcReplies == SelectSeq(rtcMessages, LAMBDA m : m.role = "assistant")

RtcLatencySum == Sum([i \in DOMAIN RtcReplies |-> RtcReplies[i].pt])

\* something is under way that ends in onmessage or at the end of
\* processAudio, the only places where isProcessing is set to false
RtcTurnResolving ==
    \/ RtcOutstanding > 0
    \/ \E r \in DOMAIN rtcRecs : rtcRecs[r].st \in {"stopped", "transcribing"}

\* C1: at most one chat request sent over the WebSocket is awaiting its
\* reply at any time
C1_SingleOutstanding == RtcOutstanding <= 1

\* C2: after teardown no reconnection timer is pending and no new WebSocket
\* is created by the instance
C2_TeardownIsFinal ==
    [][ /\ ~rtcMounted' => RtcPendingTimers' = 0
        /\ ~rtcMounted => Len(rtcSockets') = Len(rtcSockets) ]_vars

\* C4: after n chat_response events avgResponseTime is the arithmetic mean
\* of their latencies: avgResponseTime * n = L1 + ... + Ln (stated for the
\* replies that all carry a processing_time other than 0)
C4_AvgIsMean ==
    (\A i \in DOMAIN RtcReplies : RtcReplies[i].pt # 0)
        => rtcAvg.num * Len(RtcReplies) = RtcLatencySum * rtcAvg.den

\* C5: no state in which a recording has ended, its transcription request
\* is pending and the microphone is still held
C5_MicReleasedOnStop ==
    \A r \in DOMAIN rtcRecs : ~(rtcRecs[r].st = "transcribing" /\ rtcRecs[r].live)

\* C6: a startRecording that aborts leaves no microphone stream behind and
\* isRecording as it was
C6_AbortedStartReleasesMic ==
    [][ (\E o \in {"rejected", "recorderThrows"} : RtcGetUserMediaDone(o))
            => /\ RtcLiveStreams' = RtcLiveStreams
               /\ rtcIsRecording' = rtcIsRecording ]_vars

\* C7: at most one recording, with its stream and recorder, is active at
\* any time
C7_OneRecording ==
    Cardinality({r \in DOMAIN rtcRecs : rtcRecs[r].st = "recording"}) <= 1

\* C8: a dispatched turn resolves: while isProcessing is true, the reply or
\* the end of processAudio that sets it to false is still to come
C8_TurnResolves ==
    (rtcMounted /\ rtcIsProcessing) => RtcTurnResolving

\* C9: a sendMessage while the socket is not OPEN transmits nothing, queues
\* nothing and does not leave the turn pending
C9_NotConnectedFails ==
    [][ ( /\ ~RtcWsOpen
          /\ Len(UserMessages(rtcMessages')) > Len(UserMessages(rtcMessages)) )
            => /\ rtcSockets' = rtcSockets
               /\ ~rtcIsProcessing' ]_vars

\* the WebSockets of the component that are connecting or open
RtcLiveSockets == {s \in DOMAIN rtcSockets : rtcSockets[s].st \in WsLive}

\* C17: at most one WebSocket created by the component is connecting or
\* open, and wsRef.current refers to it
C17_SingleConnection ==
    /\ Cardinality(RtcLiveSockets) <= 1
    /\ \A s \in RtcLiveSockets : rtcWsRef = s

\* C22: totalMessages counts the chat_response events handled, whatever
\* their processing_time (0 and absent included)
C22_StatsCountEveryReply ==
    rtcTotalMessages = Len(RtcReplies)

\* C30: a WebSocket of the component stops being connecting or open only
\* through a connection loss or the teardown of the component, never through
\* a chat_response and the update of the statistics it causes
C30_ConnectionIndependentOfTurns ==
    [][ \A s \in DOMAIN rtcSockets :
            (rtcSockets[s].st \in WsLive /\ rtcSockets'[s].st \notin WsLive)
                => (RtcConnectionLost(s) \/ RtcUnmount) ]_vars

\* C33: every completion of the transcription request of processAudio that
\* dispatches no chat request (status not ok, blank text, exception) leaves
\* isProcessing false
C33_FailedTranscriptionUnlocks ==
    [][ \A r \in DOMAIN rtcRecs, out \in SttOutcomes :
            ( /\ rtcMounted
              /\ out.kind = "ok" => Trim(out.text) = Blank
              /\ RtcTranscriptionDone(r, out) )
                => ~rtcIsProcessing' ]_vars

(***************************************************************************)
(* AdvancedVoiceChat: what the claims speak about.                         *)
(***************************************************************************)
\* socket s, established before, is closed by this step
AvcEstablishedCloses(s) ==
    /\ avcSockets[s].est
    /\ avcSockets[s].st = "open"
    /\ avcSockets'[s].st = "closed"

\* C3: each close of an established socket schedules exactly one
\* reconnection timer, also after an error event, and connectionStatus goes
\* connected -> disconnected -> connecting with no other value in between
C3_OneReconnectPerClose ==
    [][ /\ \A s \in DOMAIN avcSockets :
              AvcEstablishedCloses(s) => avcTimers' = avcTimers + 1
        /\ avcTimers' <= 1
        /\ avcConnectionStatus = "connected"
              => avcConnectionStatus' \in {"connected", "disconnected"}
        /\ avcConnectionStatus = "disconnected"
              => avcConnectionStatus' \in {"disconnected", "connecting"} ]_vars

\* an established socket was closed after an error event, and the timer
\* scheduled by its close has started the next connection attempt
C3_Witness ==
    /\ avcMounted
    /\ avcConnectionStatus = "connecting"
    /\ avcTimers = 0
    /\ \E s \in DOMAIN avcSockets :
          /\ avcSockets[s].st = "closed" /\ avcSockets[s].est
          /\ avcSockets[s].failing
          /\ Len(avcSockets) = s + 1

AvcRetryPending ==
    \/ avcTimers > 0
    \/ \E s \in DOMAIN avcSockets : avcSockets[s].st \in WsLive

\* C16: without teardown the connection logic never comes to rest in
\* disconnected: every step that ends with connectionStatus = disconnected
\* leaves a connection attempt pending
C16_NeverRestsDisconnected ==
    [][ (avcMounted' /\ avcConnectionStatus' = "disconnected")
            => AvcRetryPending' ]_vars

\* the positions in messages of the user messages, and of the
\* assistant-role messages, of sendMessage invocation t
AvcUserEntries(t) ==
    {i \in DOMAIN avcMessages : avcMessages[i].isUser /\ avcMessages[i].turn = t}

AvcAssistantEntries(t) ==
    {i \in DOMAIN avcMessages : ~avcMessages[i].isUser /\ avcMessages[i].turn = t}

\* C13: each sendMessage invocation with non-blank text appends exactly one
\* user message and at most one assistant-role message, whatever POST /chat
\* answers
C13_OneTurnPerSend ==
    avcMounted =>
        \A t \in 1..avcSent :
            /\ Cardinality(AvcUserEntries(t)) = 1
            /\ Cardinality(AvcAssistantEntries(t)) <= 1

\* C14: when POST /chat of a turn fails, no assistant-role message is
\* recorded for that turn
C14_FailedTurnHasNoReply ==
    [][ \A c \in avcChats, out \in ChatOutcomes :
            (out.kind \in {"nonJson", "networkError"} /\ AvcChatDone(c, out))
                => \A i \in DOMAIN avcMessages' :
                      avcMessages'[i].turn = c.turn => avcMessages'[i].isUser ]_vars

\* C15: the history follows the order of the sendMessage invocations: the
\* user messages are in invocation order and so are the replies
C15_HistoryInActionOrder ==
    \A i, j \in DOMAIN avcMessages :
        (i < j /\ avcMessages[i].isUser = avcMessages[j].isUser)
            => avcMessages[i].turn <= avcMessages[j].turn

\* C18: while automatic switching is off, neither a chat reply nor an
\* inbound 'connected' or 'model_switched' event changes currentModel, the
\* model the next turn is dispatched with
C18_PinnedModelKept ==
    [][ ( /\ ~avcAutoModelSwitch
          /\ \/ \E c \in avcChats, out \in ChatOutcomes : AvcChatDone(c, out)
             \/ \E s \in DOMAIN avcSockets, type \in {"connected", "model_switched"},
                   model \in Models : AvcHandleWebSocketMessage(s, type, model) )
            => avcCurrentModel' = avcCurrentModel ]_vars

\* C19: every chat request carries model_preference = null exactly when
\* autoModelSwitch is on at the time it is dispatched, and the current
\* model otherwise
C19_ModelPreference ==
    [][ \A c \in avcChats' \ avcChats :
            c.pref = IF avcAutoModelSwitch THEN Null ELSE avcCurrentModel ]_vars

\* C21: while automatic switching is off and the pinned model is not among
\* the available models, no chat request is dispatched, neither with the
\* pinned model nor with another one
C21_UnavailablePinNotDispatched ==
    [][ (~avcAutoModelSwitch /\ avcCurrentModel \notin avcAvailableModels)
            => avcChats' \subseteq avcChats ]_vars

\* C25: stopRecording called while nothing is recorded (isRecording false
\* or no recorder) changes nothing in either component: the recorder, the
\* chunks, isRecording, isProcessing and the history stay as they were and
\* no transcription or chat request is started
C25_IdleStopChangesNothing ==
    [][ /\ idleStops'["rtc"] # idleStops["rtc"]
            => UNCHANGED << rtcRecorderRef, rtcRecs, rtcAudioChunks,
                            rtcIsRecording, rtcIsProcessing, rtcMessages,
                            rtcSockets >>
        /\ idleStops'["avc"] # idleStops["avc"]
            => UNCHANGED << avcMediaRecorder, avcRecs, avcAudioChunks,
                            avcIsRecording, avcIsProcessing, avcMessages,
                            avcChats >> ]_vars

\* stopRecording was called in both components while nothing was recorded,
\* in RealTimeChat with a recorder of an earlier recording still referenced
C25_Witness ==
    /\ idleStops["rtc"] > 0
    /\ idleStops["avc"] > 0
    /\ rtcRecorderRef # 0
    /\ ~rtcIsRecording

\* C26: while a chat request awaits its reply, the user message of its turn
\* is in the history: in AdvancedVoiceChat the message of that very turn, in
\* RealTimeChat one user message for every reply received or awaited
C26_UserMessageWhileAwaiting ==
    /\ avcMounted =>
            \A c \in avcChats : AvcUserEntries(c.turn) # {}
    /\ rtcMounted =>
            Len(UserMessages(rtcMessages)) >= Len(RtcReplies) + RtcOutstanding

\* C27: no step of handlePlayAudio and of the playback it starts (the
\* click, the end of the synthesis with either outcome, the settling of
\* play(), the audio events) changes the message history
C27_PlaybackKeepsHistory ==
    [][ << plIsPlaying, plCurrentTime, plAudioRef, plAudios, plSynthesizing >>'
            # << plIsPlaying, plCurrentTime, plAudioRef, plAudios, plSynthesizing >>
          => avcMessages' = avcMessages ]_vars

\* the playback of a reply failed while the history holds the turn
C27_Witness ==
    /\ \E a \in DOMAIN plAudios : plAudios[a].st = "failed"
    /\ \E i \in DOMAIN avcMessages : avcMessages[i].isUser
    /\ \E i \in DOMAIN avcMessages : ~avcMessages[i].isUser

\* p is a prefix of q
IsPrefix(p, q) == Len(p) <= Len(q) /\ SubSeq(q, 1, Len(p)) = p

C29_DistinctIds ==
    /\ \A i, j \in DOMAIN avcMessages :
            i # j => avcMessages[i].id # avcMessages[j].id
    /\ \A i, j \in DOMAIN rtcMessages :
            i # j => rtcMessages[i].id # rtcMessages[j].id

\* C31: when a recorder stops, what is sent to transcription is exactly
\* what that recording delivered: a recording that delivered data is sent,
\* and a request that is sent carries the chunk of its own recording only
C31_OwnChunksTranscribed ==
    [][ \A r \in DOMAIN avcRecs, hasData \in BOOLEAN :
            AvcRecorderOnStop(r, hasData)
                => /\ hasData => avcRecs'[r].st = "transcribing"
                   /\ avcRecs'[r].st = "transcribing"
                          => hasData /\ avcRecs[r].clo.chunks = << r >> ]_vars

AvcRequestInFlight ==
    \/ avcChats # {}
    \/ \E r \in DOMAIN avcRecs : avcRecs[r].st = "transcribing"

\* C34: isProcessing is true exactly while a transcription request or a
\* chat request is in flight
C34_ProcessingWhileInFlight ==
    avcMounted => (avcIsProcessing <=> AvcRequestInFlight)

\* C35: every assistant-role message of the history stands right after the
\* user message of its turn
C35_ReplyFollowsItsUserMessage ==
    avcMounted =>
        \A i \in DOMAIN avcMessages :
            ~avcMessages[i].isUser
                => /\ i > 1
                   /\ avcMessages[i - 1].isUser
                   /\ avcMessages[i - 1].turn = avcMessages[i].turn

\* wsConnection holds a WebSocket whose readyState is OPEN: the connection
\* was established and has neither failed nor been closed
AvcWsOpen ==
    /\ avcWsConnection # 0
    /\ avcSockets[avcWsConnection].st = "open"
    /\ ~avcSockets[avcWsConnection].failing

\* C36: connectionStatus is 'connected' exactly when wsConnection holds an
\* open WebSocket, also between the error event of an established socket
\* and its close event
C36_StatusAgreesWithSocket ==
    avcMounted => (avcConnectionStatus = "connected" <=> AvcWsOpen)

\* the error event of the established socket held by wsConnection was
\* handled and its close event is still due
C36_Witness ==
    /\ avcMounted
    /\ avcWsConnection # 0
    /\ avcSockets[avcWsConnection].est
    /\ avcSockets[avcWsConnection].st = "open"
    /\ avcSockets[avcWsConnection].failing
    /\ avcConnectionStatus = "disconnected"

\* C38: switchModel sets currentModel only when the backend answers ok, and
\* then to the model the backend confirms; when the answer is not ok or the
\* request throws, currentModel, autoModelSwitch, conversationMode and the
\* history stay as they were
C38_SwitchModelConfirmed ==
    [][ \A m \in Models, current \in Models :
            /\ (avcMounted /\ AvcSwitchModelDone(m, TRUE, current))
                  => /\ avcCurrentModel' = current
                     /\ UNCHANGED << avcAutoModelSwitch, avcConversationMode,
                                     avcMessages >>
            /\ AvcSwitchModelDone(m, FALSE, current)
                  => UNCHANGED << avcCurrentModel, avcAutoModelSwitch,
                                  avcConversationMode, avcMessages >> ]_vars

\* switchModel awaits the answer of the backend for a model other than the
\* current one, in a mounted component whose history is not empty and whose
\* automatic model switch has been turned off
C38_Witness ==
    /\ avcMounted
    /\ avcMessages # << >>
    /\ ~avcAutoModelSwitch
    /\ \E m \in Models \ {avcCurrentModel} :
           BagIn([kind |-> "switch", arg |-> m], avcFetches)

(***************************************************************************)
(* useAudioPlayer: what the claims speak about.                            *)
(***************************************************************************)
PlPlaying == {a \in DOMAIN plAudios : plAudios[a].st = "playing"}

\* C10: a playAudio while another playback is in progress is rejected and
\* leaves that playback as it is: the element keeps playing and remains the
\* current one
C10_PlaybackBusy ==
    [][ (PlPlaying # {} /\ PlSynthesisDone(TRUE))
            => /\ plAudios' = plAudios
               /\ plAudioRef' = plAudioRef ]_vars

(***************************************************************************)
(* The model selection policy: what the claims speak about.                *)
(***************************************************************************)
\* model m is at least as good a choice as model n under mode: a higher
\* rating, or the same rating and more tokens per second, or the same of
\* both and a cost class not higher
PolNotWorse(mode, models, m, n) ==
    LET sm == PolScore(mode, models[m])
        sn == PolScore(mode, models[n])
        tm == models[m].tokens_per_second
        tn == models[n].tokens_per_second
    IN  \/ sm > sn
        \/ sm = sn /\ tm > tn
        \/ sm = sn /\ tm = tn /\ models[m].cost <= models[n].cost

\* C20: with no model pinned, the model selected for the next turn is an
\* available model with the maximum speed_rating under speed, the maximum
\* quality_rating under quality and the maximum sum of both under balanced,
\* ties broken by the highest tokens_per_second and then the lowest cost
\* class; with no model available the selection fails
C20_SelectionPolicy ==
    polSelected # NotSelected =>
        IF \A m \in Models : ~polModels[m].available
        THEN polSelected = NoModelAvailable
        ELSE /\ polSelected \in Models
             /\ polModels[polSelected].available
             /\ \A n \in Models :
                   polModels[n].available
                       => PolNotWorse(polMode, polModels, polSelected, n)

\* the case of the specification's scenario: two available models with the
\* same rating under the mode and the same tokens_per_second, where the
\* cost class decides
C20_Witness ==
    /\ polSelected \in Models
    /\ \E n \in Models \ {polSelected} :
          /\ polModels[n].available
          /\ polModels[n].speed_rating # polModels[polSelected].speed_rating
          /\ PolScore(polMode, polModels[n])
                = PolScore(polMode, polModels[polSelected])
          /\ polModels[n].tokens_per_second
                = polModels[polSelected].tokens_per_second
          /\ polModels[n].cost > polModels[polSelected].cost

\* C23: at most one audio element is playing at any time
C23_OnePlaying ==
    Cardinality(PlPlaying) <= 1

\* a second playAudio replaced an element and its own element is playing
C23_Witness ==
    /\ plAudioRef # 0
    /\ plAudios[plAudioRef].st = "playing"
    /\ \E a \in DOMAIN plAudios : a # plAudioRef /\ plAudios[a].st = "paused"

\* C24: whatever ends a playback releases what was acquired for it: after
\* stopAudio the object URL of the stopped element is revoked and audioRef
\* no longer refers to it, and the same holds of an element that ended,
\* failed, had its play() rejected or was replaced by a later playAudio
C24_PlaybackReleased ==
    [][ /\ (PlStopAudio /\ plAudioRef # 0)
            => /\ plAudios'[plAudioRef].revoked
               /\ plAudioRef' # plAudioRef
        /\ \A a \in DOMAIN plAudios' :
              ( \/ plAudios'[a].st \in {"ended", "failed"}
                \/ a \in DOMAIN plAudios /\ PlPlayRejected(a)
                \/ a # plAudioRef' )
                  => plAudios'[a].revoked ]_vars

\* C37: isPlaying is true in every state in which an audio element is
\* playing, also when events of a replaced element arrive late
C37_PlayingIsShown ==
    PlPlaying # {} => plIsPlaying

\* C11: isPlaying is true only while the current audio element is starting
\* or playing, and whenever it is true with nothing playing it is reset to
\* false or a playback begins: it never stays true with nothing playing
C11_BusyFlagReset ==
    /\ [](plIsPlaying =>
             /\ plAudioRef # 0
             /\ plAudios[plAudioRef].st \in {"starting", "playing"})
    /\ (plIsPlaying /\ PlPlaying = {}) ~> (~plIsPlaying \/ PlPlaying # {})

\* a playback was replaced by a later playAudio, the later one played to
\* its end, and isPlaying is false with nothing playing
C11_Witness ==
    /\ ~plIsPlaying
    /\ PlPlaying = {}
    /\ plAudioRef # 0
    /\ plAudios[plAudioRef].st = "ended"
    /\ \E a \in DOMAIN plAudios : a # plAudioRef /\ plAudios[a].st = "paused"
====
